---- MODULE Spec2Model ----
(***************************************************************************)
(* Model of tecotecBlogScraperTool.execute: the source enumerator, the     *)
(* paginated crawler, the per-entry extractor and the final sort.          *)
(*                                                                         *)
(* Instants are whole hours since 1970-01-01T00:00Z.  A Date object is a   *)
(* sequence: <<t>> for a valid instant, <<>> for Invalid Date (NaN).       *)
(* A calendar date string YYYY-MM-DD is the triple <<y, m, d>>.            *)
(***************************************************************************)
EXTENDS Integers, Sequences, FiniteSets, TLC

VARIABLES startDate, endDate, maxPages, tz, pool,
          urlsToCheck, baseIdx, currentPage, hasNextPage,
          pc, pageLen, pageNext, entryIdx, el, verdict,
          articles, log, result

vars == <<startDate, endDate, maxPages, tz, pool,
          urlsToCheck, baseIdx, currentPage, hasNextPage,
          pc, pageLen, pageNext, entryIdx, el, verdict,
          articles, log, result>>

(***************************************************************************)
(* Bounds of the explored environment.                                     *)
(***************************************************************************)
MaxEntries == 2
MaxPagesInput == 2
MaxArticles == 2

(***************************************************************************)
(* The built-in Date: proleptic Gregorian calendar arithmetic.            *)
(***************************************************************************)
DaysFromCivil(y, m, d) ==
    LET yy  == IF m <= 2 THEN y - 1 ELSE y
        era == yy \div 400
        yoe == yy - era * 400
        mp  == IF m > 2 THEN m - 3 ELSE m + 9
        doy == (153 * mp + 2) \div 5 + d - 1
        doe == yoe * 365 + yoe \div 4 - yoe \div 100 + doy
    IN  era * 146097 + doe - 719468

CivilFromDays(z) ==
    LET zz  == z + 719468
        era == zz \div 146097
        doe == zz - era * 146097
        yoe == (doe - doe \div 1460 + doe \div 36524 - doe \div 146096) \div 365
        doy == doe - (365 * yoe + yoe \div 4 - yoe \div 100)
        mp  == (5 * doy + 2) \div 153
        d   == doy - (153 * mp + 2) \div 5 + 1
        m   == IF mp < 10 THEN mp + 3 ELSE mp - 9
        y   == yoe + era * 400 + (IF m <= 2 THEN 1 ELSE 0)
    IN  <<y, m, d>>

InvalidDate == <<>>

IsValidDate(dt) == Len(dt) = 1

\* The element ranges the ISO parser accepts; a day past the month's end
\* rolls over into the next month.
FieldsOk(s) == s.m >= 1 /\ s.m <= 12 /\ s.d >= 1 /\ s.d <= 31

\* new Date(string).  Kinds of string:
\*   "date"  YYYY-MM-DD                 read as UTC midnight
\*   "zoned" YYYY-MM-DDTHH:00:00+off    read at the stated offset
\*   "local" YYYY-MM-DDTHH:00:00        read in the host's time zone
\*   "junk"  anything unrecognisable    Invalid Date
NewDate(s, zone) ==
    IF s.k = "junk" THEN InvalidDate
    ELSE IF ~FieldsOk(s) THEN InvalidDate
    ELSE LET day == DaysFromCivil(s.y, s.m, 1) + s.d - 1
         IN  CASE s.k = "date"  -> <<day * 24>>
               [] s.k = "zoned" -> <<day * 24 + s.h - s.off>>
               [] s.k = "local" -> <<day * 24 + s.h - zone>>

DateStr(ymd) == [k |-> "date", y |-> ymd[1], m |-> ymd[2], d |-> ymd[3]]

\* Date.prototype.getFullYear(): the year in the host's time zone.
GetFullYear(dt, zone) == CivilFromDays((dt[1] + zone) \div 24)[1]

\* toISOString().split('T')[0]: the UTC calendar date.
IsoDatePart(dt) == CivilFromDays(dt[1] \div 24)

\* a >= b and a <= b on Date objects (false when either is NaN).
DateGE(a, b) == IsValidDate(a) /\ IsValidDate(b) /\ a[1] >= b[1]

DateLE(a, b) == IsValidDate(a) /\ IsValidDate(b) /\ a[1] <= b[1]

(***************************************************************************)
(* Inputs of one invocation and the documents the origin may serve.       *)
(***************************************************************************)
\* Calls: <<startDate, endDate, UTC offset of the host in hours>>.  The
\* windows lie across a year boundary: two days, one day, and two inverted
\* ones; the offsets move the local year of a UTC midnight.  Each of these
\* gives at most one archive URL besides the root.
Calls ==
    { << <<2022, 12, 31>>, <<2023, 1, 1>>,   -5 >>,
      << <<2023, 1, 1>>,   <<2023, 1, 1>>,   -5 >>,
      << <<2023, 1, 1>>,   <<2023, 1, 1>>,   9 >>,
      << <<2023, 1, 2>>,   <<2023, 1, 1>>,   0 >>,
      << <<2023, 1, 1>>,   <<2022, 12, 31>>, 0 >>,
      << <<2023, 1, 1>>,   <<2022, 12, 31>>, -5 >> }

\* An entry of a listing page:
\*   href   href of the heading link: <<>> when missing, else <<string>>
\*   title  text of the heading link
\*   attr   datetime attribute of the time element: <<>> when missing,
\*          else <<s>> with s the attribute's string
\*   text   match of /(\d{4})[^\d]+(\d{1,2})[^\d]+(\d{1,2})/ on the time
\*          element's text: <<>> for no match, else the captured numbers
\*   authorEntry  trimmed text of .entry-author-name ("" when absent)
\*   dataUser     data-user-name attribute: <<>> when missing, else <<string>>
\*   summary      trimmed text of .entry-description, with the match of the
\*                greeting pattern on it: intro is <<>> for no match, else
\*                <<name>>, the pattern's second group
\*   categories   texts of the tag labels, in document order
NoSummary == [text |-> "", intro |-> <<>>]

Entry(h, t, a, x) ==
    [href |-> h, title |-> t, attr |-> a, text |-> x,
     authorEntry |-> "", dataUser |-> <<>>, summary |-> NoSummary, categories |-> <<>>]

Described(e, ae, du, sm, cs) ==
    [e EXCEPT !.authorEntry = ae, !.dataUser = du, !.summary = sm, !.categories = cs]

PlainSummary == [text |-> "About tests", intro |-> <<>>]

GreetingSummary == [text |-> "Hello, I am Sato of the dev unit.", intro |-> <<"Sato">>]

Zoned(ymd, hh, o) ==
    << [k |-> "zoned", y |-> ymd[1], m |-> ymd[2], d |-> ymd[3], h |-> hh, off |-> o] >>

Local(ymd, hh) ==
    << [k |-> "local", y |-> ymd[1], m |-> ymd[2], d |-> ymd[3], h |-> hh] >>

EmptyAttr == << [k |-> "empty"] >>

JunkAttr == << [k |-> "junk"] >>

\* Date sources around the window 2022-12-31 .. 2023-01-01.
DateSources ==
    { <<Zoned(<<2022, 12, 30>>, 12, 0), <<>>>>,
      <<Zoned(<<2022, 12, 31>>, 0, 0), <<>>>>,
      <<Zoned(<<2022, 12, 31>>, 12, 0), <<>>>>,
      <<Zoned(<<2023, 1, 1>>, 0, 0), <<>>>>,
      <<Zoned(<<2023, 1, 1>>, 12, 0), <<>>>>,
      <<Zoned(<<2023, 1, 2>>, 0, 0), <<>>>>,
      <<Zoned(<<2022, 12, 31>>, 0, 9), <<>>>>,
      <<Zoned(<<2023, 1, 1>>, 9, 9), <<>>>>,
      << <<DateStr(<<2023, 1, 1>>)>>, <<>>>>,
      <<Local(<<2022, 12, 31>>, 0), <<>>>>,
      <<Local(<<2023, 1, 1>>, 0), <<>>>>,
      <<JunkAttr, <<2022, 12, 31>>>>,
      << <<>>, <<2022, 12, 31>>>>,
      << <<>>, <<2023, 13, 1>>>>,
      << <<>>, <<>>>>,
      <<EmptyAttr, <<2023, 1, 1>>>>,
      <<EmptyAttr, <<>>>> }

RichPool ==
    { Entry(<<"/a">>, "T1", ds[1], ds[2]) : ds \in DateSources }
    \cup { Entry(h, "T1", Zoned(<<2023, 1, 1>>, 0, 0), <<>>) : h \in { <<>>, <<"">>, <<"/b">> } }
    \cup { Entry(<<>>, "T1", <<>>, <<2022, 12, 31>>),
           Entry(<<"/a">>, "T2", <<>>, <<2023, 1, 1>>) }

SmallPool ==
    { Entry(<<>>, "T1", Zoned(<<2023, 1, 1>>, 0, 0), <<>>),
      Entry(<<"/a">>, "T1", <<>>, <<2022, 12, 31>>),
      Entry(<<"/a">>, "T1", JunkAttr, <<>>),
      Entry(<<"/a">>, "T1", <<>>, <<>>) }

\* Entries of a single day that differ in their author sources, summary
\* and tags.
AuthorPool ==
    { Described(Entry(<<"/c">>, "T1", Zoned(<<2023, 1, 1>>, 0, 0), <<>>), ae, du, sm, <<"go", "go">>) :
         ae \in {"", "Abe"}, du \in { <<>>, <<"bob">> }, sm \in {NoSummary, GreetingSummary} }
    \cup { Described(Entry(<<"/d">>, "T2", <<>>, <<2023, 1, 1>>), "", <<"">>, PlainSummary, <<>>),
           Entry(<<"/c">>, "T1", <<>>, <<>>) }

NoEntry == Entry(<<>>, "", <<>>, <<>>)

\* maxPages: z.number().optional().default(5)
DefaultMaxPages == 5

Scenarios ==
    { [s |-> <<2022, 12, 31>>, e |-> <<2023, 1, 1>>, zone |-> -5, maxPages |-> 1,
       pool |-> RichPool],
      [s |-> <<2023, 1, 1>>, e |-> <<2023, 1, 1>>, zone |-> 0, maxPages |-> DefaultMaxPages,
       pool |-> SmallPool],
      [s |-> <<2022, 12, 31>>, e |-> <<2023, 1, 1>>, zone |-> 0, maxPages |-> 1,
       pool |-> SmallPool],
      [s |-> <<2023, 1, 1>>, e |-> <<2023, 1, 1>>, zone |-> 9, maxPages |-> 1,
       pool |-> AuthorPool] }
    \cup { [s |-> c[1], e |-> c[2], zone |-> c[3], maxPages |-> n, pool |-> SmallPool] :
              c \in Calls, n \in 0..MaxPagesInput }

(***************************************************************************)
(* Source enumerator.                                                      *)
(***************************************************************************)
RECURSIVE YearsFrom(_, _)
YearsFrom(y, last) ==
    IF y <= last THEN << <<"archive", y>> >> \o YearsFrom(y + 1, last) ELSE <<>>

BlogUrl == <<"root">>

UrlsToCheck(s, e, zone) ==
    LET startDateObj == NewDate(DateStr(s), zone)
        endDateObj   == NewDate(DateStr(e), zone)
    IN  (IF IsValidDate(startDateObj) /\ IsValidDate(endDateObj)
         THEN YearsFrom(GetFullYear(startDateObj, zone), GetFullYear(endDateObj, zone))
         ELSE <<>>) \o <<BlogUrl>>

(***************************************************************************)
(* Entry extractor.                                                        *)
(***************************************************************************)
\* dateText after the attribute / text fallback: <<>> when undefined.
DateTextOf(e) ==
    IF e.attr # <<>> /\ e.attr[1].k # "empty" THEN e.attr
    ELSE IF e.text # <<>> THEN << DateStr(e.text) >>
    ELSE <<>>

InWindowNoUpperBound(articleDate, startDateObj, endDateObj) ==
    DateGE(articleDate, startDateObj)

\* articleDate >= startDateObj && articleDate <= endDateObj
InWindow(articleDate, startDateObj, endDateObj) ==
    DateGE(articleDate, startDateObj) /\ DateLE(articleDate, endDateObj)

\* articles.some(article => article.url === url)
IsDuplicate(arts, url) ==
    \E i \in 1..Len(arts) : url # <<>> /\ arts[i].url = url[1]

\* url || ''
UrlOrEmpty(url) == IF url = <<>> THEN "" ELSE url[1]

\* The fixed default display name.
DefaultAuthor == "Tecotec"

\* $(el).attr('data-user-name') || ''
AuthorFromData(e) == IF e.dataUser = <<>> THEN "" ELSE e.dataUser[1]

\* introMatch ? introMatch[2] || '' : ''
AuthorFromIntro(e) == IF e.summary.intro = <<>> THEN "" ELSE e.summary.intro[1]

FirstNonEmptyDataFirst(a, b, c, d) ==
    IF b # "" THEN b ELSE IF a # "" THEN a ELSE IF c # "" THEN c ELSE d

\* a || b || c || d
FirstNonEmpty(a, b, c, d) ==
    IF a # "" THEN a ELSE IF b # "" THEN b ELSE IF c # "" THEN c ELSE d

\* authorFromEntry || authorFromData || authorFromIntro || default
ResolveAuthor(e) ==
    FirstNonEmpty(e.authorEntry, AuthorFromData(e), AuthorFromIntro(e), DefaultAuthor)

\* summary || `${title}...`
SummaryOrTitle(e) ==
    IF e.summary.text # "" THEN <<e.summary.text>> ELSE <<e.title, "...">>

MakeArticle(e, articleDate) ==
    [title |-> e.title, url |-> UrlOrEmpty(e.href), date |-> IsoDatePart(articleDate),
     author |-> ResolveAuthor(e),
     authorFromIntro |-> AuthorFromIntro(e),
     authorFromData |-> AuthorFromData(e),
     summary |-> SummaryOrTitle(e),
     categories |-> e.categories]

\* Outcome of the callback for one entry.
Verdict(e, arts, s, e2, zone) ==
    LET dateText == DateTextOf(e) IN
    IF dateText = <<>> THEN "nodate"
    ELSE LET articleDate == NewDate(dateText[1], zone) IN
         IF ~IsValidDate(articleDate) THEN "threw"
         ELSE IF ~InWindow(articleDate, NewDate(DateStr(s), zone), NewDate(DateStr(e2), zone))
              THEN "outside"
         ELSE IF IsDuplicate(arts, e.href) THEN "duplicate"
         ELSE "accepted"

ExtractLastWins(e, arts, s, e2, zone) ==
    LET v == Verdict(e, arts, s, e2, zone)
        a == MakeArticle(e, NewDate(DateTextOf(e)[1], zone))
    IN  IF v = "accepted" THEN Append(arts, a)
        ELSE IF v = "duplicate"
             THEN [i \in 1..Len(arts) |-> IF arts[i].url = e.href[1] THEN a ELSE arts[i]]
             ELSE arts

\* articles.push({...}) when the entry passes every test, nothing otherwise.
Extract(e, arts, s, e2, zone) ==
    IF Verdict(e, arts, s, e2, zone) = "accepted"
    THEN Append(arts, MakeArticle(e, NewDate(DateTextOf(e)[1], zone)))
    ELSE arts

(***************************************************************************)
(* Final sort: newest first, stable.                                       *)
(***************************************************************************)
SortKey(a) == NewDate(DateStr(a.date), 0)[1]

RECURSIVE InsertDescUnstable(_, _)
InsertDescUnstable(sorted, a) ==
    IF sorted = <<>> THEN <<a>>
    ELSE IF SortKey(Head(sorted)) > SortKey(a)
         THEN <<Head(sorted)>> \o InsertDescUnstable(Tail(sorted), a)
         ELSE <<a>> \o sorted

\* Array.prototype.sort is stable: a record goes behind the records of its
\* own date that were in the array before it.
RECURSIVE InsertDesc(_, _)
InsertDesc(sorted, a) ==
    IF sorted = <<>> THEN <<a>>
    ELSE IF SortKey(Head(sorted)) >= SortKey(a)
         THEN <<Head(sorted)>> \o InsertDesc(Tail(sorted), a)
         ELSE <<a>> \o sorted

RECURSIVE SortByDateDesc(_)
SortByDateDesc(arts) ==
    IF arts = <<>> THEN <<>>
    ELSE InsertDesc(SortByDateDesc(SubSeq(arts, 1, Len(arts) - 1)), arts[Len(arts)])

(***************************************************************************)
(* The crawl.  pc is the position of execute:                              *)
(*   "loop"  at the head of the for / while loops                          *)
(*   "fetch" awaiting fetch(pageUrl) and response.text()                   *)
(*   "each"  inside entries.each                                           *)
(*   "delay" awaiting the inter-page timer                                 *)
(*   "done"  returned                                                      *)
(*   "failed" rejected with an uncaught exception                          *)
(* log records every request issued, how its page ended, and whether the   *)
(* inter-page timer ran to its end after it.                               *)
(***************************************************************************)
NoResult == [returned |-> FALSE, articles |-> <<>>, totalCount |-> 0,
             period |-> [startDate |-> <<>>, endDate |-> <<>>]]

Blank == "none"

Init ==
    /\ \E sc \in Scenarios :
          /\ startDate = sc.s
          /\ endDate = sc.e
          /\ maxPages = sc.maxPages
          /\ tz = sc.zone
          /\ pool = sc.pool
    /\ urlsToCheck = UrlsToCheck(startDate, endDate, tz)
    /\ baseIdx = 1
    /\ currentPage = 1
    /\ hasNextPage = TRUE
    /\ pc = "loop"
    /\ pageLen = 0
    /\ pageNext = FALSE
    /\ entryIdx = 0
    /\ el = NoEntry
    /\ verdict = Blank
    /\ articles = <<>>
    /\ log = <<>>
    /\ result = NoResult

inputs == <<startDate, endDate, maxPages, tz, pool, urlsToCheck>>

page == <<pageLen, pageNext, entryIdx, el, verdict>>

\* The page's locals (entries, the pager link, the callback's entry) go out
\* of scope with the loop iteration.
ClearPage ==
    /\ pageLen' = 0
    /\ pageNext' = FALSE
    /\ entryIdx' = 0
    /\ el' = NoEntry
    /\ verdict' = Blank

SetOutcome(l, o) == [l EXCEPT ![Len(l)].out = o]

WhileCondOffByOne == hasNextPage /\ currentPage <= maxPages + 1

\* while (hasNextPage && currentPage <= maxPages)
WhileCond == hasNextPage /\ currentPage <= maxPages

\* for (const baseUrl of urlsToCheck): move to the next base URL with a
\* fresh page counter and flag.
NextBaseUrl ==
    /\ baseIdx' = baseIdx + 1
    /\ currentPage' = 1
    /\ hasNextPage' = TRUE

\* The loop condition holds: issue the GET for the current page.
Request ==
    /\ pc = "loop"
    /\ baseIdx <= Len(urlsToCheck)
    /\ WhileCond
    /\ log' = Append(log, [base |-> baseIdx, page |-> currentPage, out |-> "pending",
                           waited |-> FALSE])
    /\ pc' = "fetch"
    /\ ClearPage
    /\ UNCHANGED <<inputs, baseIdx, currentPage, hasNextPage, articles, result>>

\* The loop condition fails: this base URL is finished.
EndBase ==
    /\ pc = "loop"
    /\ baseIdx <= Len(urlsToCheck)
    /\ ~WhileCond
    /\ NextBaseUrl
    /\ ClearPage
    /\ UNCHANGED <<inputs, pc, articles, log, result>>

CatchThenDelay ==
    /\ hasNextPage' = FALSE
    /\ pc' = "delay"
    /\ UNCHANGED <<baseIdx, currentPage>>

\* catch (error): hasNextPage = false
Catch ==
    /\ hasNextPage' = FALSE
    /\ pc' = "loop"
    /\ UNCHANGED <<baseIdx, currentPage>>

\* An exception no handler catches rejects the promise execute returned.
Propagate ==
    /\ pc' = "failed"
    /\ UNCHANGED <<baseIdx, currentPage, hasNextPage>>

InTryFetchOnly(p) == p = "fetch"

\* The positions the try block encloses.
InTry(p) == p \in {"fetch", "each", "delay"}

\* throw at the current position.
Raise == IF InTry(pc) THEN Catch ELSE Propagate

\* fetch() or response.text() rejects.
FetchThrows ==
    /\ pc = "fetch"
    /\ Raise
    /\ log' = SetOutcome(log, "throw")
    /\ UNCHANGED <<inputs, page, articles, result>>

OnBadStatusReturn ==
    /\ baseIdx' = Len(urlsToCheck) + 1
    /\ UNCHANGED <<currentPage, hasNextPage>>
    /\ pc' = "loop"

OnBadStatusSkipPage ==
    /\ currentPage' = currentPage + 1
    /\ UNCHANGED <<baseIdx, hasNextPage>>
    /\ pc' = "loop"

\* response.status !== 200: break
OnBadStatus ==
    /\ NextBaseUrl
    /\ pc' = "loop"

FetchBadStatus ==
    /\ pc = "fetch"
    /\ OnBadStatus
    /\ log' = SetOutcome(log, "non200")
    /\ UNCHANGED <<inputs, page, articles, result>>

OnEmptyPageAdvance ==
    /\ currentPage' = currentPage + 1
    /\ pc' = "loop"
    /\ UNCHANGED <<baseIdx, hasNextPage>>

\* entries.length === 0: hasNextPage = false; continue
OnEmptyPage ==
    /\ hasNextPage' = FALSE
    /\ pc' = "loop"
    /\ UNCHANGED <<baseIdx, currentPage>>

FetchEmptyPage ==
    /\ pc = "fetch"
    /\ OnEmptyPage
    /\ log' = SetOutcome(log, "empty")
    /\ UNCHANGED <<inputs, page, articles, result>>

\* Status 200 and a document with n >= 1 entries; nx tells whether the
\* document has a .pager-next link.
FetchPage ==
    /\ pc = "fetch"
    /\ \E n \in 1..MaxEntries, nx \in BOOLEAN :
          /\ pageLen' = n
          /\ pageNext' = nx
    /\ entryIdx' = 0
    /\ pc' = "each"
    /\ UNCHANGED <<inputs, baseIdx, currentPage, hasNextPage, el, verdict,
                   articles, log, result>>

\* The origin serves entries that keep the accumulated list within MaxArticles.
Offered(e) ==
    Len(Extract(e, articles, startDate, endDate, tz)) <= MaxArticles

\* One invocation of the entries.each callback.
EachEntry ==
    /\ pc = "each"
    /\ entryIdx < pageLen
    /\ \E e \in pool :
          /\ Offered(e)
          /\ el' = e
          /\ verdict' = Verdict(e, articles, startDate, endDate, tz)
          /\ articles' = Extract(e, articles, startDate, endDate, tz)
    /\ IF verdict' = "threw"
       THEN /\ Raise
            /\ log' = SetOutcome(log, "procthrow")
            /\ UNCHANGED entryIdx
       ELSE /\ entryIdx' = entryIdx + 1
            /\ UNCHANGED <<baseIdx, currentPage, hasNextPage, pc, log>>
    /\ UNCHANGED <<inputs, pageLen, pageNext, result>>

AdvanceSamePage ==
    /\ hasNextPage' = pageNext
    /\ UNCHANGED <<baseIdx, currentPage>>

AdvanceIgnoringPager ==
    /\ hasNextPage' = TRUE
    /\ currentPage' = currentPage + 1
    /\ UNCHANGED baseIdx

\* hasNextPage = !!nextPageLink; currentPage++
Advance ==
    /\ hasNextPage' = pageNext
    /\ currentPage' = currentPage + 1
    /\ UNCHANGED baseIdx

AfterEachNoDelay ==
    /\ pc = "each"
    /\ entryIdx = pageLen
    /\ Advance
    /\ pc' = "loop"
    /\ log' = SetOutcome(log, IF pageNext THEN "next" ELSE "last")
    /\ ClearPage
    /\ UNCHANGED <<inputs, articles, result>>

\* After the last entry: read the pager link, advance, start the delay.
AfterEach ==
    /\ pc = "each"
    /\ entryIdx = pageLen
    /\ Advance
    /\ pc' = "delay"
    /\ log' = SetOutcome(log, IF pageNext THEN "next" ELSE "last")
    /\ ClearPage
    /\ UNCHANGED <<inputs, articles, result>>

SetWaited(l) == [l EXCEPT ![Len(l)].waited = TRUE]

\* The 1000 ms timer fires.
DelayElapsed ==
    /\ pc = "delay"
    /\ pc' = "loop"
    /\ log' = SetWaited(log)
    /\ UNCHANGED <<inputs, baseIdx, currentPage, hasNextPage, page, articles, result>>

EnvelopeSwappedPeriod(arts, s, e) ==
    [returned |-> TRUE, articles |-> arts, totalCount |-> Len(arts),
     period |-> [startDate |-> e, endDate |-> s]]

\* { articles, totalCount: articles.length, period: { startDate, endDate } }
Envelope(arts, s, e) ==
    [returned |-> TRUE, articles |-> arts, totalCount |-> Len(arts),
     period |-> [startDate |-> s, endDate |-> e]]

\* All base URLs done: sort and return the envelope.
Return ==
    /\ pc = "loop"
    /\ baseIdx > Len(urlsToCheck)
    /\ articles' = SortByDateDesc(articles)
    /\ result' = Envelope(articles', startDate, endDate)
    /\ pc' = "done"
    /\ ClearPage
    /\ UNCHANGED <<inputs, baseIdx, currentPage, hasNextPage, log>>

Next ==
    \/ Request
    \/ EndBase
    \/ FetchThrows
    \/ FetchBadStatus
    \/ FetchEmptyPage
    \/ FetchPage
    \/ EachEntry
    \/ AfterEach
    \/ DelayElapsed
    \/ Return

Spec == Init /\ [][Next]_vars

\* The invocations explored under fairness: hosts at or east of UTC with at
\* most two base URLs; a window of one day is crawled one page deep, an
\* inverted window up to MaxPagesInput pages.
FairInit ==
    /\ Init
    /\ pool = SmallPool
    /\ tz >= 0
    /\ Len(urlsToCheck) <= 2
    /\ maxPages <= (IF startDate = endDate THEN 1 ELSE MaxPagesInput)

\* Every fetch issued resolves or fails, every timer fires, and the event
\* loop runs whatever continuation is ready.
FairSpec == FairInit /\ [][Next]_vars /\ WF_vars(Next)

(***************************************************************************)
(* Helpers of the properties.                                              *)
(***************************************************************************)
\* Order on calendar dates written YYYY-MM-DD.
YmdLE(a, b) ==
    \/ a[1] < b[1]
    \/ a[1] = b[1] /\ a[2] < b[2]
    \/ a[1] = b[1] /\ a[2] = b[2] /\ a[3] <= b[3]

Returned == pc = "done" /\ result.returned

\* The callback ran in this step on the entry el'.
EntryStep == pc = "each" /\ entryIdx < pageLen /\ el' \in pool /\ verdict' # Blank

\* The calendar day an entry is dated: its normalized (UTC) date.
HasDay(e) ==
    /\ DateTextOf(e) # <<>>
    /\ IsValidDate(NewDate(DateTextOf(e)[1], tz))

DayOf(e) == IsoDatePart(NewDate(DateTextOf(e)[1], tz))

DayAfter(ymd) == CivilFromDays(DaysFromCivil(ymd[1], ymd[2], ymd[3]) + 1)

DayBefore(ymd) == CivilFromDays(DaysFromCivil(ymd[1], ymd[2], ymd[3]) - 1)

UrlAccepted(arts, u) == \E i \in 1..Len(arts) : arts[i].url = u

\* Neither the datetime attribute nor the text gives a date that parses.
NoParseableDate(e) ==
    /\ e.attr = <<>> \/ e.attr[1].k = "empty" \/ ~IsValidDate(NewDate(e.attr[1], tz))
    /\ e.text = <<>> \/ ~IsValidDate(NewDate(DateStr(e.text), tz))

(***************************************************************************)
(* C1: no two records of the returned articles list have the same url,    *)
(* records of unlinked entries (url "") included.                          *)
(***************************************************************************)
C1_UniqueUrls ==
    Returned =>
        \A i, j \in 1..Len(result.articles) :
            i # j => result.articles[i].url # result.articles[j].url

(***************************************************************************)
(* C2: every record of the accumulated and of the returned list has a     *)
(* date d with startDate <= d <= endDate, as calendar dates.               *)
(***************************************************************************)
C2_DatesInWindow ==
    /\ \A i \in 1..Len(articles) :
          YmdLE(startDate, articles[i].date) /\ YmdLE(articles[i].date, endDate)
    /\ \A i \in 1..Len(result.articles) :
          YmdLE(startDate, result.articles[i].date) /\ YmdLE(result.articles[i].date, endDate)

\* A record was accepted from a timestamp attribute with a time of day.
C2_Witness ==
    /\ pc = "each"
    /\ verdict = "accepted"
    /\ el.attr # <<>>
    /\ el.attr[1].k = "zoned"
    /\ el.attr[1].h # 0
    /\ articles[Len(articles)].date = <<el.attr[1].y, el.attr[1].m, el.attr[1].d>>

(***************************************************************************)
(* C3: with startDate <= endDate, an entry dated startDate or endDate     *)
(* whose url is not yet accepted is accepted whatever its time of day, and *)
(* an entry dated the day before startDate or the day after endDate is    *)
(* rejected.                                                               *)
(***************************************************************************)
C3_WindowInclusive ==
    [][ (EntryStep /\ YmdLE(startDate, endDate) /\ HasDay(el')) =>
          /\ (/\ DayOf(el') \in {startDate, endDate}
              /\ ~UrlAccepted(articles, UrlOrEmpty(el'.href)))
                => verdict' = "accepted"
          /\ DayOf(el') \in {DayBefore(startDate), DayAfter(endDate)}
                => verdict' # "accepted" ]_vars

(***************************************************************************)
(* C6: an entry with no parseable date in either source produces no       *)
(* record and is not an error: the callback goes on to the next entry of   *)
(* the page and the crawl of the base URL is not cut short.                *)
(***************************************************************************)
C6_UndatedEntrySkipped ==
    [][ (EntryStep /\ NoParseableDate(el')) =>
          /\ articles' = articles
          /\ pc' = "each"
          /\ entryIdx' = entryIdx + 1
          /\ hasNextPage' = hasNextPage ]_vars

(***************************************************************************)
(* Helpers over the request log.                                           *)
(***************************************************************************)
Failures == {"throw", "non200", "procthrow"}

Requested(b, n) == \E i \in 1..Len(log) : log[i].base = b /\ log[i].page = n

\* No request for the base URL of request i is issued after request i.
LastOfBase(i) == \A j \in (i + 1)..Len(log) : log[j].base # log[i].base

Kept(arts, arts2) == \A i \in 1..Len(arts) : \E j \in 1..Len(arts2) : arts2[j] = arts[i]

(***************************************************************************)
(* C4: when the crawl of a base URL fails (fetch throws, status is not    *)
(* 200, or page processing throws) and maxPages >= 1, page 1 of every      *)
(* later base URL has been fetched by the time execute returns, and every  *)
(* step keeps the records accepted so far.                                 *)
(***************************************************************************)
C4_FailureScopedToBase ==
    /\ [](Returned =>
            \A i \in 1..Len(log) :
                (log[i].out \in Failures /\ maxPages >= 1) =>
                    \A b \in (log[i].base + 1)..Len(urlsToCheck) : Requested(b, 1))
    /\ [][Kept(articles, articles')]_vars

\* A base URL failed after a record was accepted, and a later one was crawled.
C4_Witness ==
    /\ Returned
    /\ Len(result.articles) > 0
    /\ \E i, j \in 1..Len(log) :
          /\ i < j
          /\ log[i].out \in Failures
          /\ log[i].page > 1
          /\ log[j].base > log[i].base

(***************************************************************************)
(* C5: no failure leaves execute rejected: the position "failed" is never  *)
(* reached, whatever the fetches and entries do, and where execute has     *)
(* finished it has returned the envelope with the accumulated list.        *)
(***************************************************************************)
C5_NoFailurePropagates ==
    /\ pc # "failed"
    /\ pc = "done" =>
          /\ result.returned
          /\ result.articles = articles
          /\ result.totalCount = Len(articles)

\* Every base URL failed and execute returned an empty list.
C5_Witness ==
    /\ Returned
    /\ result.articles = <<>>
    /\ Len(log) > 0
    /\ \A i \in 1..Len(log) : log[i].out \in Failures
    /\ \E i \in 1..Len(log) : log[i].out = "procthrow"
    /\ \E i \in 1..Len(log) : log[i].out = "throw"

(***************************************************************************)
(* C7: after page k of a base URL came back with zero entries no further   *)
(* page of that base URL is requested, however large maxPages is, and the  *)
(* empty page adds nothing to the accumulated records.                     *)
(***************************************************************************)
C7_EmptyPageEndsBase ==
    /\ [](\A i \in 1..Len(log) : log[i].out = "empty" => LastOfBase(i))
    /\ [][(pc = "fetch" /\ log'[Len(log')].out = "empty") => articles' = articles]_vars

\* An empty page below the page limit, after a page that gave a record.
C7_Witness ==
    /\ Returned
    /\ Len(result.articles) > 0
    /\ \E i \in 1..Len(log) :
          /\ log[i].out = "empty"
          /\ log[i].page < maxPages
          /\ log[i].page > 1

(***************************************************************************)
(* C8: the pages requested for a base URL are 1, 2, ..., n in that order   *)
(* with n <= maxPages, base URLs being crawled one after the other.        *)
(***************************************************************************)
C8_PagesSequentialAndBounded ==
    \A i \in 1..Len(log) :
        /\ log[i].page >= 1
        /\ log[i].page <= maxPages
        /\ log[i].base \in 1..Len(urlsToCheck)
        /\ IF log[i].page = 1
           THEN i > 1 => log[i - 1].base < log[i].base
           ELSE i > 1 /\ log[i - 1].base = log[i].base /\ log[i - 1].page = log[i].page - 1

\* A page with a next link was the last one requested because of maxPages.
C8_Witness ==
    /\ Returned
    /\ \E i \in 1..Len(log) :
          /\ log[i].page = maxPages
          /\ log[i].page > 1
          /\ log[i].out = "next"

(***************************************************************************)
(* C9: no page URL is requested twice; after a thrown fetch or a status    *)
(* other than 200 no further request goes to that base URL; and the        *)
(* outcome of a fetch alone never adds a record.                           *)
(***************************************************************************)
C9_NoRetry ==
    /\ [](\A i, j \in 1..Len(log) :
            i < j => /\ <<log[i].base, log[i].page>> # <<log[j].base, log[j].page>>
                     /\ log[i].out \in {"throw", "non200"} => log[j].base # log[i].base)
    /\ [][pc = "fetch" => articles' = articles]_vars

\* A second page had a bad status, the crawl went on with the next base
\* URL, and its fetch threw.
C9_Witness ==
    /\ Returned
    /\ \E i, j \in 1..Len(log) :
          /\ i < j
          /\ log[i].out = "non200"
          /\ log[i].page > 1
          /\ log[j].out = "throw"

(***************************************************************************)
(* C10: a page with entries and no next-page link is the last one          *)
(* requested for its base URL, and a page n > 1 is requested only right    *)
(* after page n - 1 of the same base URL had entries and a next-page link. *)
(***************************************************************************)
C10_PagerLinkDecides ==
    \A i \in 1..Len(log) :
        /\ log[i].out = "last" => LastOfBase(i)
        /\ log[i].page > 1 =>
              /\ i > 1
              /\ log[i - 1].base = log[i].base
              /\ log[i - 1].out = "next"

\* A page without a next link ended the crawl below the page limit.
C10_Witness ==
    /\ Returned
    /\ \E i \in 1..Len(log) :
          /\ log[i].out = "last"
          /\ log[i].page < maxPages
    /\ \E i \in 1..Len(log) : log[i].page > 1

(***************************************************************************)
(* Helpers over sequences of records.                                      *)
(***************************************************************************)
Bijections(n) == { f \in [1..n -> 1..n] : \A i, j \in 1..n : i # j => f[i] # f[j] }

\* sorted holds the records of arts, newest date first, records of one date
\* in the order they have in arts.
StableDescOf(sorted, arts) ==
    /\ Len(sorted) = Len(arts)
    /\ \E f \in Bijections(Len(arts)) :
          /\ \A i \in 1..Len(arts) : sorted[i] = arts[f[i]]
          /\ \A i, j \in 1..Len(arts) :
                i < j => /\ YmdLE(sorted[j].date, sorted[i].date)
                         /\ sorted[i].date = sorted[j].date => f[i] < f[j]

ReturnStep == pc = "loop" /\ pc' = "done"

(***************************************************************************)
(* C11: the returned articles list is a permutation of the accepted        *)
(* records, ordered by date descending, and records of equal date keep the *)
(* order in which they were accepted.                                      *)
(***************************************************************************)
C11_SortedStablePermutation ==
    [][ReturnStep => StableDescOf(result'.articles, articles)]_vars

\* Two different records of one date were returned.
C11_Witness ==
    /\ Returned
    /\ Len(result.articles) = 2
    /\ result.articles[1].date = result.articles[2].date
    /\ result.articles[1].title # result.articles[2].title

(***************************************************************************)
(* C12: first occurrence wins: an entry whose url is the url of a record   *)
(* already accepted changes nothing in the accumulated list, so the record *)
(* kept for a url carries the fields of the first entry encountered.       *)
(***************************************************************************)
C12_FirstOccurrenceWins ==
    [][ (EntryStep /\ UrlAccepted(articles, UrlOrEmpty(el'.href))) =>
          articles' = articles ]_vars

(***************************************************************************)
(* C13: the base URLs are, for the years written in startDate and endDate  *)
(* alone, one archive URL per calendar year from startDate's year to       *)
(* endDate's year in ascending order, followed by the site root, without   *)
(* duplicates.                                                             *)
(***************************************************************************)
YearOf(ymd) == ymd[1]

YearCount == IF YearOf(endDate) >= YearOf(startDate)
             THEN YearOf(endDate) - YearOf(startDate) + 1 ELSE 0

C13_EnumeratorByCalendarYear ==
    /\ Len(urlsToCheck) = YearCount + 1
    /\ \A i \in 1..YearCount : urlsToCheck[i] = <<"archive", YearOf(startDate) + i - 1>>
    /\ urlsToCheck[Len(urlsToCheck)] = BlogUrl
    /\ \A i, j \in 1..Len(urlsToCheck) : i # j => urlsToCheck[i] # urlsToCheck[j]

(***************************************************************************)
(* C14: between two successive page fetches of one base URL the delay is   *)
(* observed: page n + 1 is requested only after the timer started after    *)
(* page n was processed has fired.                                         *)
(***************************************************************************)
C14_DelayBetweenPages ==
    \A i \in 1..Len(log) :
        log[i].page > 1 =>
            /\ i > 1
            /\ log[i - 1].base = log[i].base
            /\ log[i - 1].waited

\* The second page of a base URL is being fetched.
C14_Witness ==
    /\ pc = "fetch"
    /\ Len(log) > 1
    /\ log[Len(log)].page = 2
    /\ log[Len(log) - 1].waited

(***************************************************************************)
(* C15: the author of an accepted record is the first non-empty of: the    *)
(* text of the author-name element, the data-user-name attribute, the name *)
(* taken from the greeting, the fixed default name; with all three         *)
(* candidates present it is the text of the author-name element.           *)
(***************************************************************************)
Given(opt) == opt # <<>> /\ opt[1] # ""

C15_AuthorPriority ==
    [][ (EntryStep /\ verdict' = "accepted") =>
          LET author == articles'[Len(articles')].author IN
          /\ el'.authorEntry # "" => author = el'.authorEntry
          /\ (el'.authorEntry = "" /\ Given(el'.dataUser)) => author = el'.dataUser[1]
          /\ (el'.authorEntry = "" /\ ~Given(el'.dataUser) /\ Given(el'.summary.intro))
                => author = el'.summary.intro[1]
          /\ (el'.authorEntry = "" /\ ~Given(el'.dataUser) /\ ~Given(el'.summary.intro))
                => author = DefaultAuthor ]_vars

\* An entry with all three candidates was accepted under the name of its
\* author-name element.
C15_Witness ==
    /\ pc = "each"
    /\ verdict = "accepted"
    /\ el.authorEntry # ""
    /\ Given(el.dataUser)
    /\ Given(el.summary.intro)
    /\ el.dataUser[1] # el.authorEntry
    /\ articles[Len(articles)].author = el.authorEntry

(***************************************************************************)
(* C16: in the returned envelope totalCount is the number of records of    *)
(* articles, and period.startDate and period.endDate are the caller's      *)
(* inputs unchanged, whatever failures the crawl met.                      *)
(***************************************************************************)
C16_EnvelopeEchoesInputs ==
    Returned =>
        /\ result.totalCount = Len(result.articles)
        /\ result.period.startDate = startDate
        /\ result.period.endDate = endDate

\* Execute returned records for a window of two days after a failure.
C16_Witness ==
    /\ Returned
    /\ startDate # endDate
    /\ result.totalCount > 0
    /\ \E i \in 1..Len(log) : log[i].out \in Failures

(***************************************************************************)
(* C17 as stated: between the last fetch of a base URL and the first fetch *)
(* of the next base URL a delay always elapses, however the crawl of the   *)
(* former ended.                                                           *)
(***************************************************************************)
C17_DelayBeforeNextBase ==
    \A j \in 2..Len(log) : log[j].page = 1 => log[j - 1].waited

(***************************************************************************)
(* C17 amended: between the last fetch of a base URL and the first fetch   *)
(* of the next base URL a delay elapses exactly when the last page fetched *)
(* for the former was processed to its end with entries; after a thrown    *)
(* fetch, a status other than 200, an empty page or an exception while     *)
(* processing, the next base URL is fetched without delay.                 *)
(***************************************************************************)
C17_DelayOnlyAfterProcessedPage ==
    \A j \in 2..Len(log) :
        log[j].page = 1 =>
            (log[j - 1].waited <=> log[j - 1].out \in {"next", "last"})

\* One base URL was entered after a delay and the next one, after a failed
\* fetch, without.
C17_Witness ==
    \E i, j \in 2..Len(log) :
        /\ log[i].page = 1
        /\ log[i - 1].waited
        /\ log[j].page = 1
        /\ ~log[j - 1].waited
        /\ log[j - 1].out \in Failures

(***************************************************************************)
(* C18: with endDate earlier than startDate no record is ever accepted:    *)
(* the returned list is empty and totalCount is 0 for every outcome, the   *)
(* site root is still crawled, and the years contribute no archive URL     *)
(* when endDate's year is below startDate's year.                          *)
(***************************************************************************)
Inverted == ~YmdLE(startDate, endDate)

C18_InvertedWindowEmpty ==
    Inverted =>
        /\ articles = <<>>
        /\ urlsToCheck[Len(urlsToCheck)] = BlogUrl
        /\ Returned =>
              /\ result.articles = <<>>
              /\ result.totalCount = 0
              /\ maxPages >= 1 => Requested(Len(urlsToCheck), 1)
        /\ YearOf(endDate) < YearOf(startDate) => urlsToCheck = <<BlogUrl>>

(***************************************************************************)
(* C19: the accumulated list is append-only during the crawl: every step   *)
(* before the return keeps the records accepted so far, unchanged and in   *)
(* place, and the return only reorders them, so records accepted before an *)
(* exception are in the returned list.                                     *)
(***************************************************************************)
IsPrefix(s, t) == Len(s) <= Len(t) /\ SubSeq(t, 1, Len(s)) = s

SameRecords(s, t) ==
    /\ Len(s) = Len(t)
    /\ \E f \in Bijections(Len(s)) : \A i \in 1..Len(s) : t[i] = s[f[i]]

C19_AppendOnly ==
    [][ IF ReturnStep
        THEN SameRecords(articles, articles') /\ result'.articles = articles'
        ELSE IsPrefix(articles, articles') ]_vars

\* Records were returned although every page fetched ended in a failure,
\* one of them an exception while processing its entries.
C19_Witness ==
    /\ Returned
    /\ result.articles # <<>>
    /\ \A i \in 1..Len(log) : log[i].out \in Failures
    /\ \E i \in 1..Len(log) : log[i].out = "procthrow"

(***************************************************************************)
(* C20: when every fetch issued resolves or fails and every delay elapses, *)
(* execute eventually returns, and at no time have more than maxPages      *)
(* times the number of base URLs fetches been issued.                      *)
(***************************************************************************)
C20_Terminates ==
    /\ <>(pc = "done")
    /\ [](Len(log) <= maxPages * Len(urlsToCheck))

\* Execute returned after fetching every page the limit allows of every
\* base URL.
C20_Witness ==
    /\ Returned
    /\ maxPages > 1
    /\ Len(urlsToCheck) > 1
    /\ Len(log) = maxPages * Len(urlsToCheck)

====
